---- MODULE Spec2Model ----
(***************************************************************************)
(* TeamSpeak ServerQuery plugin: one invocation of                         *)
(* _perform_teamspeak_query (src/plugin.py), modelled as a state machine.  *)
(* The invocation first tries the ts3 library and, on any exception, runs  *)
(* the raw TCP ServerQuery implementation.  The server and the library are *)
(* the environment: every call may be answered, rejected or may raise.     *)
(***************************************************************************)
EXTENDS Integers, Sequences, FiniteSets, TLC

(***************************************************************************)
(* Bounds of the model.                                                    *)
(***************************************************************************)
\* longest client list the server answers with
MaxClients == 13
\* length of the values given to _unescape
MaxLen == 4
\* lines of a response to one command
MaxLines == 2
\* tokens of data kept while a peer goes on sending
MaxBuf == 6

(***************************************************************************)
(* Program constants.                                                      *)
(***************************************************************************)
\* online_users[:10], len(online_users) > 10, len(online_users) - 10
UserListCap == 10
\* uptime // 86400, uptime % 86400
SecondsPerDay == 86400
\* (uptime % 86400) // 3600
SecondsPerHour == 3600

(***************************************************************************)
(* Python values.  A dict is a function whose domain is its key set; text  *)
(* that the program converts with int() is a sequence of one-character     *)
(* strings, so that the conversion is computed and can fail.               *)
(***************************************************************************)
\* d.get(k, default)
Get(d, k, default) == IF k \in DOMAIN d THEN d[k] ELSE default

\* the empty dict {}
EmptyDict == [k \in {} |-> ""]

Digits == {"0", "1", "2", "3", "4", "5", "6", "7", "8", "9"}

DigitVal ==
  ("0" :> 0) @@ ("1" :> 1) @@ ("2" :> 2) @@ ("3" :> 3) @@ ("4" :> 4) @@
  ("5" :> 5) @@ ("6" :> 6) @@ ("7" :> 7) @@ ("8" :> 8) @@ ("9" :> 9)

\* the text after an optional sign
Unsigned(s) == IF Len(s) > 0 /\ s[1] \in {"-", "+"} THEN Tail(s) ELSE s

\* int(s) accepts s: an optional sign and at least one digit
\* (int("") and int("abc") raise ValueError)
IsIntText(s) ==
  /\ Len(Unsigned(s)) > 0
  /\ \A i \in 1..Len(Unsigned(s)) : Unsigned(s)[i] \in Digits

RECURSIVE DigitsValue(_)
DigitsValue(b) ==
  IF b = <<>> THEN 0
  ELSE 10 * DigitsValue(SubSeq(b, 1, Len(b) - 1)) + DigitVal[b[Len(b)]]

\* int(s) for a text s that int() accepts
IntOf(s) ==
  IF Len(s) > 0 /\ s[1] = "-" THEN 0 - DigitsValue(Unsigned(s))
  ELSE DigitsValue(Unsigned(s))

\* truthiness of a str: "" is falsy
Truthy(s) == s # <<>>

(***************************************************************************)
(* What the server can answer with.                                        *)
(***************************************************************************)
\* serverinfo records: complete, empty, and with virtualserver_maxclients /
\* virtualserver_uptime missing, empty, non-numeric or negative
FullInfo ==
  [virtualserver_name |-> "Test", virtualserver_maxclients |-> <<"3", "2">>,
   virtualserver_uptime |-> <<"9", "0", "0", "0", "0">>,
   virtualserver_version |-> "3.13.7", virtualserver_platform |-> "Linux"]

ServerInfos ==
  { FullInfo,
    [virtualserver_name |-> "Test", virtualserver_uptime |-> <<"1", "7", "6", "3", "9", "9">>],
    [FullInfo EXCEPT !.virtualserver_maxclients = <<"a", "b", "c">>],
    [FullInfo EXCEPT !.virtualserver_maxclients = <<"-", "5">>,
                     !.virtualserver_uptime = <<"8", "6", "3", "9", "9">>],
    [FullInfo EXCEPT !.virtualserver_uptime = <<>>],
    [FullInfo EXCEPT !.virtualserver_maxclients = <<"0">>, !.virtualserver_uptime = <<"0">>],
    [FullInfo EXCEPT !.virtualserver_uptime = <<"1", "d">>] }

\* the i-th client of the server's listing: two query clients among the
\* first ten, channels 5, 7 and 9, one client without a nickname
ClientAt(i) ==
  LET base == [clid |-> ToString(i),
               cid |-> IF i % 6 = 0 THEN "7" ELSE IF i % 6 = 4 THEN "9" ELSE "5",
               client_type |-> IF i % 7 = 3 THEN "1" ELSE "0"]
  IN IF i % 9 = 5 THEN base ELSE base @@ [client_nickname |-> "u" \o ToString(i)]

\* listings of 0 and 3 clients, and of every length from the cap of the
\* user list to the bound
ClientLists ==
  { [i \in 1..n |-> ClientAt(i)] : n \in {0, 3} \cup (UserListCap..MaxClients) }

\* channel listings; a channel id occurs once in a listing, as on a server.
\* Names may repeat, may equal another channel's id, may be missing or come
\* under the key "name".
ChannelLists ==
  { <<>>,
    << [cid |-> "5", channel_name |-> "Lobby"], [cid |-> "7", channel_name |-> "AFK"] >>,
    << [cid |-> "5", channel_name |-> "7"], [cid |-> "7", name |-> "Lobby"],
       [cid |-> "9", channel_name |-> "AFK"] >>,
    << [cid |-> "5", channel_name |-> "Lobby"], [cid |-> "9", channel_name |-> "Lobby"],
       [cid |-> "7"] >> }

\* teamspeak.exclude_channels as configured: ids (str or int) and names
ExcludeConfigs ==
  { <<>>,
    << [int |-> 7] >>,
    << [str |-> "Lobby"], [str |-> "7"] >> }

\* str(x) of a configured token
StrOf(x) == IF "int" \in DOMAIN x THEN ToString(x.int) ELSE x.str

(***************************************************************************)
(* Result shaping, shared text of the two backends (lines 76-110, 198-230) *)
(***************************************************************************)
\* ch.get("channel_name") or ch.get("name") or ""
ChannelName(ch) ==
  IF "channel_name" \in DOMAIN ch /\ ch.channel_name # "" THEN ch.channel_name
  ELSE IF "name" \in DOMAIN ch /\ ch.name # "" THEN ch.name
  ELSE ""

\* str(c.get("cid"))
CidOf(c) == Get(c, "cid", "None")

\* cid_to_name = {ch.get("cid"): name for ch in channels}: a later record
\* with the same key replaces an earlier one
CidToName(chs) ==
  [k \in {CidOf(chs[i]) : i \in 1..Len(chs)} |->
     LET last == CHOOSE i \in 1..Len(chs) :
                   /\ CidOf(chs[i]) = k
                   /\ \A j \in 1..Len(chs) : CidOf(chs[j]) = k => j <= i
     IN ChannelName(chs[last])]

\* a loop body that also keeps a matched name as a literal id
ExcludeStepBug(acc, ex, c2n) ==
  acc \cup {k \in DOMAIN c2n : c2n[k] = ex} \cup {ex}

\* one turn of the loop over exclude_channels (lines 80-87, 200-206)
ExcludeStep(acc, ex, c2n) ==
  IF \E k \in DOMAIN c2n : c2n[k] = ex
  THEN acc \cup {k \in DOMAIN c2n : c2n[k] = ex}
  ELSE acc \cup {ex}

\* excluded_cids after the loop over the tokens
RECURSIVE ExcludedFrom(_, _, _)
ExcludedFrom(acc, toks, c2n) ==
  IF toks = <<>> THEN acc
  ELSE ExcludedFrom(ExcludeStep(acc, Head(toks), c2n), Tail(toks), c2n)

ExcludedCids(toks, chs) == ExcludedFrom({}, toks, CidToName(chs))

\* a filter that forgets the client_type test
KeepsClientBug(c, excluded) ==
  CidOf(c) \notin excluded

\* the condition of the comprehension that builds online_users (lines 89, 208)
KeepsClient(c, excluded) ==
  Get(c, "client_type", "None") = "0" /\ CidOf(c) \notin excluded

\* [c for c in clients if ...]
RECURSIVE OnlineUsers(_, _)
OnlineUsers(cls, excluded) ==
  IF cls = <<>> THEN <<>>
  ELSE IF KeepsClient(Head(cls), excluded)
       THEN <<Head(cls)>> \o OnlineUsers(Tail(cls), excluded)
       ELSE OnlineUsers(Tail(cls), excluded)

\* [ch for ch in channels if str(ch.get("cid")) not in excluded_cids]
RECURSIVE FilterChannels(_, _)
FilterChannels(chs, excluded) ==
  IF chs = <<>> THEN <<>>
  ELSE IF CidOf(Head(chs)) \notin excluded
       THEN <<Head(chs)>> \o FilterChannels(Tail(chs), excluded)
       ELSE FilterChannels(Tail(chs), excluded)

\* online_users[:10]
FirstUsers(users) ==
  SubSeq(users, 1, IF Len(users) < UserListCap THEN Len(users) ELSE UserListCap)

\* a user list that reports an overflow of 0 at exactly ten users
UserListPartBug(users) ==
  IF Len(users) >= UserListCap
  THEN [online_users |-> [i \in 1..Len(FirstUsers(users)) |->
                            Get(FirstUsers(users)[i], "client_nickname", "unknown")],
        more_users |-> Len(users) - UserListCap]
  ELSE [online_users |-> [i \in 1..Len(FirstUsers(users)) |->
                            Get(FirstUsers(users)[i], "client_nickname", "unknown")]]

\* the online_users / more_users part of the result (lines 107-110, 227-230)
UserListPart(users) ==
  LET user_names == [i \in 1..Len(FirstUsers(users)) |->
                       Get(FirstUsers(users)[i], "client_nickname", "unknown")]
  IN IF Len(users) > UserListCap
     THEN [online_users |-> user_names, more_users |-> Len(users) - UserListCap]
     ELSE [online_users |-> user_names]

\* {"server_name": ..., "online_count": ..., "max_clients": ...}
BaseResult(info, users) ==
  [server_name |-> Get(info, "virtualserver_name", "unknown server"),
   online_count |-> Len(users),
   max_clients |-> IntOf(Get(info, "virtualserver_maxclients", <<"0">>))]

\* status fields whose hours are not reduced modulo a day
StatusPartBug(info, uptime, channel_count) ==
  [uptime_days |-> uptime \div SecondsPerDay,
   uptime_hours |-> uptime \div SecondsPerHour,
   version |-> Get(info, "virtualserver_version", "unknown"),
   platform |-> Get(info, "virtualserver_platform", "unknown"),
   channel_count |-> channel_count]

\* the result.update({...}) of a server_status query (lines 98-104, 218-224)
StatusPart(info, uptime, channel_count) ==
  [uptime_days |-> uptime \div SecondsPerDay,
   uptime_hours |-> (uptime % SecondsPerDay) \div SecondsPerHour,
   version |-> Get(info, "virtualserver_version", "unknown"),
   platform |-> Get(info, "virtualserver_platform", "unknown"),
   channel_count |-> channel_count]

\* int(server_info.get("virtualserver_maxclients", "0")) does not raise
MaxClientsParses(info) == IsIntText(Get(info, "virtualserver_maxclients", <<"0">>))

\* ts3 path: int(server_info.get("virtualserver_uptime", 0))
LibUptimeParses(info) ==
  "virtualserver_uptime" \notin DOMAIN info \/ IsIntText(info.virtualserver_uptime)

LibUptime(info) ==
  IF "virtualserver_uptime" \in DOMAIN info THEN IntOf(info.virtualserver_uptime) ELSE 0

\* raw path: int(get(..., 0)) if get(...) else 0
RawUptimeParses(info) ==
  \/ "virtualserver_uptime" \notin DOMAIN info
  \/ ~Truthy(info.virtualserver_uptime)
  \/ IsIntText(info.virtualserver_uptime)

RawUptime(info) ==
  IF "virtualserver_uptime" \in DOMAIN info /\ Truthy(info.virtualserver_uptime)
  THEN IntOf(info.virtualserver_uptime)
  ELSE 0


(***************************************************************************)
(* State of one invocation.                                                *)
(***************************************************************************)
VARIABLES
  cfg,              \* what get_config_func answers: password, api_key,
                    \* exclude_channels, show_details
  query_type,       \* "online_count" | "server_status"
  show_user_list,   \* the show_user_list argument
  ts3_installed,    \* whether "import ts3" succeeds
  pc,               \* the statement the invocation is at
  backend,          \* "none" | "ts3" | "raw": the backend driving the session
  conn,             \* the ts3 connection: "none" | "open" | "closed"
  sock,             \* the raw socket: "none" | "open" | "closed"
  connects,         \* connection attempts made, over both backends
  logins,           \* login commands issued, over both backends
  sent,             \* raw commands issued, each with the status id of its
                    \* reply ("raise" when _send_and_recv raised)
  exclude_channels, \* the tokens, normalised to str (line 50)
  server_info,      \* server_info
  clients,          \* clients / parsed_clients
  channels,         \* channels / parsed_channels as bound at line 196
  channels2,        \* parsed_channels as rebound at line 215
  excluded_cids,    \* excluded_cids
  online_users,     \* online_users
  result,           \* result
  ret,              \* <<>> until the invocation returns, then the pair
  rpc,              \* where a call of _send_and_recv is: "idle" (no call),
                    \* "send", "recv", "returned", "raised"
  stream,           \* what the server has still to deliver for the command
  peer,             \* the server once the stream is delivered: "silent"
                    \* (recv times out), "closes", or "drips" (it keeps
                    \* sending data without a status line)
  buf,              \* data of _send_and_recv
  chunk,            \* chunk of _send_and_recv
  entries,          \* the data lines _send_and_recv returns
  err,              \* the status id _send_and_recv returns
  val,              \* the argument of a call of _unescape
  out               \* what the call returned, <<"none">> before

config == <<cfg, query_type, show_user_list, ts3_installed, exclude_channels>>
data == <<server_info, clients, channels, channels2, excluded_cids, online_users, result>>
session == <<cfg, query_type, show_user_list, ts3_installed, pc, backend, conn, sock,
             connects, logins, sent, exclude_channels, server_info, clients, channels,
             channels2, excluded_cids, online_users, result, ret>>
\* the state of the nested functions _send_and_recv and _unescape
nested == <<rpc, stream, peer, buf, chunk, entries, err, val, out>>
vars == <<session, nested>>

\* no call of _send_and_recv is being followed
CodecAtRest ==
  /\ rpc = "idle"
  /\ stream = <<>>
  /\ peer = "silent"
  /\ buf = <<>>
  /\ chunk = <<>>
  /\ entries = <<>>
  /\ err = "none"

\* no call of _unescape is being followed
EscapeAtRest ==
  /\ val = <<>>
  /\ out = <<"none">>

NestedAtRest == CodecAtRest /\ EscapeAtRest

\* the credentials matter to the invocation only by being empty or not:
\* none, a password, an api key
Credentials ==
  { [password |-> "", api_key |-> ""],
    [password |-> "pw", api_key |-> ""],
    [password |-> "", api_key |-> "key"] }

Configs ==
  { [password |-> c.password, api_key |-> c.api_key,
     exclude_channels |-> ex, show_details |-> sd] :
      c \in Credentials, ex \in ExcludeConfigs, sd \in BOOLEAN }

QueryTypes == {"online_count", "server_status"}

Init ==
  /\ cfg \in Configs
  /\ query_type \in QueryTypes
  /\ show_user_list \in BOOLEAN
  /\ ts3_installed \in BOOLEAN
  /\ pc = "start"
  /\ backend = "none"
  /\ conn = "none"
  /\ sock = "none"
  /\ connects = 0
  /\ logins = 0
  /\ sent = <<>>
  /\ exclude_channels = <<>>
  /\ server_info = EmptyDict
  /\ clients = <<>>
  /\ channels = <<>>
  /\ channels2 = <<>>
  /\ excluded_cids = {}
  /\ online_users = <<>>
  /\ result = EmptyDict
  /\ ret = <<>>
  /\ NestedAtRest

\* return False, {"error": ...}
Failure(kind) == <<FALSE, [error |-> kind]>>

\* return True, result
Success(res) == <<TRUE, res>>

\* show_user_list or get_config_func("teamspeak.show_details", ...)
ShowList == show_user_list \/ cfg.show_details

\* result once the optional user list is added (lines 106-110, 226-230)
WithUserList(res, users) == IF ShowList THEN res @@ UserListPart(users) ELSE res

(***************************************************************************)
(* Lines 41-55: configuration and the credentials check.                   *)
(***************************************************************************)
\* an entry that normalises the tokens and skips the check of line 54
CheckCredentialsBug ==
  /\ pc = "start"
  /\ exclude_channels' = [i \in 1..Len(cfg.exclude_channels) |-> StrOf(cfg.exclude_channels[i])]
  /\ pc' = "import"
  /\ UNCHANGED <<cfg, query_type, show_user_list, ts3_installed, backend, conn, sock,
                 connects, logins, sent, ret>>
  /\ UNCHANGED data
  /\ UNCHANGED nested

\* lines 47-55
CheckCredentials ==
  /\ pc = "start"
  /\ exclude_channels' = [i \in 1..Len(cfg.exclude_channels) |-> StrOf(cfg.exclude_channels[i])]
  /\ IF cfg.api_key = "" /\ cfg.password = ""
     THEN /\ ret' = Failure("credentials")
          /\ pc' = "done"
     ELSE /\ ret' = ret
          /\ pc' = "import"
  /\ UNCHANGED <<cfg, query_type, show_user_list, ts3_installed, backend, conn, sock,
                 connects, logins, sent>>
  /\ UNCHANGED data
  /\ UNCHANGED nested

(***************************************************************************)
(* Lines 58-121: the ts3 library path.  Every statement of the try block   *)
(* may raise; "except Exception" at line 121 then enters the raw path.     *)
(***************************************************************************)
ResetData ==
  /\ server_info' = EmptyDict
  /\ clients' = <<>>
  /\ channels' = <<>>
  /\ channels2' = <<>>
  /\ excluded_cids' = {}
  /\ online_users' = <<>>
  /\ result' = EmptyDict

\* a fallback without the finally of lines 115-119: conn is left as it is
FallBackToRawNoFinally ==
  /\ pc' = "raw_connect"
  /\ backend' = "raw"
  /\ conn' = conn
  /\ ret' = ret
  /\ ResetData

\* an exception inside the try block of line 58: the finally of line 115
\* closes conn when it is bound, the handler of line 121 starts the raw path.
\* The locals of the ts3 path are dead from here on: the raw path binds each
\* of them before it reads it.
FallBackToRaw ==
  /\ pc' = "raw_connect"
  /\ backend' = "raw"
  /\ conn' = IF conn = "open" THEN "closed" ELSE conn
  /\ ret' = ret
  /\ ResetData

\* line 59: import ts3
ImportTs3 ==
  /\ pc = "import"
  /\ \/ /\ ts3_installed
        /\ pc' = "lib_connect"
        /\ backend' = "ts3"
        /\ UNCHANGED <<conn, ret>>
        /\ UNCHANGED data
     \/ /\ ~ts3_installed
        /\ FallBackToRaw
  /\ UNCHANGED <<config, sock, connects, logins, sent>>
  /\ UNCHANGED nested

\* line 63: conn = ts3.query.TS3Connection(ts_host, ts_port)
LibConnect ==
  /\ pc = "lib_connect"
  /\ connects' = connects + 1
  /\ \/ /\ conn' = "open"
        /\ pc' = "lib_login"
        /\ UNCHANGED <<backend, ret>>
        /\ UNCHANGED data
     \/ FallBackToRaw
  /\ UNCHANGED <<config, sock, logins, sent>>
  /\ UNCHANGED nested

\* lines 65-66: conn.login(...)
LibLogin ==
  /\ pc = "lib_login"
  /\ logins' = logins + 1
  /\ \/ /\ pc' = "lib_use"
        /\ UNCHANGED <<backend, conn, ret>>
        /\ UNCHANGED data
     \/ FallBackToRaw
  /\ UNCHANGED <<config, sock, connects, sent>>
  /\ UNCHANGED nested

\* line 67: conn.use(sid=ts_server_id)
LibUse ==
  /\ pc = "lib_use"
  /\ \/ /\ pc' = "lib_serverinfo"
        /\ UNCHANGED <<backend, conn, ret>>
        /\ UNCHANGED data
     \/ FallBackToRaw
  /\ UNCHANGED <<config, sock, connects, logins, sent>>
  /\ UNCHANGED nested

\* lines 69-71: conn.serverinfo()[0] (IndexError on an empty answer) and
\* int(...maxclients...) (ValueError)
LibServerinfo ==
  /\ pc = "lib_serverinfo"
  /\ \/ \E info \in ServerInfos :
          IF MaxClientsParses(info)
          THEN /\ server_info' = info
               /\ pc' = "lib_clientlist"
               /\ UNCHANGED <<backend, conn, ret, clients, channels, channels2,
                              excluded_cids, online_users, result>>
          ELSE FallBackToRaw
     \/ FallBackToRaw
  /\ UNCHANGED <<config, sock, connects, logins, sent>>
  /\ UNCHANGED nested

\* line 73: clients = conn.clientlist()
LibClientlist ==
  /\ pc = "lib_clientlist"
  /\ \/ \E cl \in ClientLists :
          /\ clients' = cl
          /\ pc' = "lib_channellist"
          /\ UNCHANGED <<backend, conn, ret, server_info, channels, channels2,
                         excluded_cids, online_users, result>>
     \/ FallBackToRaw
  /\ UNCHANGED <<config, sock, connects, logins, sent>>
  /\ UNCHANGED nested

\* the result of the ts3 path (lines 92-110)
LibResult(info, users, chs, excluded) ==
  WithUserList(
    IF query_type = "server_status"
    THEN BaseResult(info, users)
           @@ StatusPart(info, LibUptime(info), Len(FilterChannels(chs, excluded)))
    ELSE BaseResult(info, users),
    users)

\* lines 75-110: channels = conn.channellist() and the shaping of the result;
\* int(...uptime...) of line 95 may raise
LibChannellist ==
  /\ pc = "lib_channellist"
  /\ \/ \E chs \in ChannelLists :
          IF query_type = "server_status" => LibUptimeParses(server_info)
          THEN /\ channels' = chs
               /\ excluded_cids' = ExcludedCids(exclude_channels, chs)
               /\ online_users' = OnlineUsers(clients, excluded_cids')
               /\ result' = LibResult(server_info, online_users', chs, excluded_cids')
               /\ pc' = "lib_close"
               /\ UNCHANGED <<backend, conn, ret, server_info, clients, channels2>>
          ELSE FallBackToRaw
     \/ FallBackToRaw
  /\ UNCHANGED <<config, sock, connects, logins, sent>>
  /\ UNCHANGED nested

\* lines 112-119: conn.close(), return True, result; the finally closes again
LibClose ==
  /\ pc = "lib_close"
  /\ \/ /\ conn' = "closed"
        /\ ret' = Success(result)
        /\ pc' = "done"
        /\ UNCHANGED backend
        /\ UNCHANGED data
     \/ FallBackToRaw
  /\ UNCHANGED <<config, sock, connects, logins, sent>>
  /\ UNCHANGED nested

(***************************************************************************)
(* Lines 123-240: the raw TCP ServerQuery path.  _send_and_recv returns    *)
(* (parsed, err) or raises (sendall, or a recv error other than a          *)
(* timeout); an exception reaches the handler of line 239.                 *)
(***************************************************************************)
\* status ids of a reply: "0", a server error id, and "-1", which
\* _send_and_recv makes up when the reply has no status line
StatusIds == {"0", "1024", "-1"}

\* replies to clientlist / channellist: the listing with id "0", or a
\* failed reply without data
ListReplies(lists) ==
  { [parsed |-> l, id |-> "0"] : l \in lists }
    \cup { [parsed |-> <<>>, id |-> i] : i \in StatusIds \ {"0"} }

Sent(cmd, id) == Append(sent, [cmd |-> cmd, id |-> id])

\* line 239-240: except Exception as e: return False, {...}
RawRaise(cmd) ==
  /\ sent' = Sent(cmd, "raise")
  /\ ret' = Failure("tcp")
  /\ pc' = "done"
  /\ UNCHANGED sock
  /\ UNCHANGED data

\* sock.close(); return False, {"error": ...} (lines 179-180, 184-185, 189-190)
RawReject(kind) ==
  /\ sock' = "closed"
  /\ ret' = Failure(kind)
  /\ pc' = "done"
  /\ UNCHANGED data

\* lines 169-174: socket.create_connection and the banner read, whose
\* failure is ignored
RawConnect ==
  /\ pc = "raw_connect"
  /\ connects' = connects + 1
  /\ \/ /\ sock' = "open"
        /\ pc' = "raw_login"
        /\ UNCHANGED ret
     \/ /\ ret' = Failure("tcp")
        /\ pc' = "done"
        /\ UNCHANGED sock
  /\ UNCHANGED <<config, backend, conn, logins, sent>>
  /\ UNCHANGED data
  /\ UNCHANGED nested

\* lines 176-180: login
RawLogin ==
  /\ pc = "raw_login"
  /\ logins' = logins + 1
  /\ \/ \E id \in StatusIds :
          /\ sent' = Sent("login", id)
          /\ IF id # "0"
             THEN RawReject("login")
             ELSE /\ pc' = "raw_use"
                  /\ UNCHANGED <<sock, ret>>
                  /\ UNCHANGED data
     \/ RawRaise("login")
  /\ UNCHANGED <<config, backend, conn, connects>>
  /\ UNCHANGED nested

\* lines 182-185: use sid=...
RawUse ==
  /\ pc = "raw_use"
  /\ \/ \E id \in StatusIds :
          /\ sent' = Sent("use", id)
          /\ IF id # "0"
             THEN RawReject("use")
             ELSE /\ pc' = "raw_serverinfo"
                  /\ UNCHANGED <<sock, ret>>
                  /\ UNCHANGED data
     \/ RawRaise("use")
  /\ UNCHANGED <<config, backend, conn, connects, logins>>
  /\ UNCHANGED nested

\* lines 187-193: serverinfo; server_info = parsed[0] if parsed else {};
\* int(...maxclients...) may raise
RawServerinfo ==
  /\ pc = "raw_serverinfo"
  /\ \/ \E id \in StatusIds \ {"0"} :
          /\ sent' = Sent("serverinfo", id)
          /\ RawReject("serverinfo")
     \/ \E info \in ServerInfos \cup {EmptyDict} :
          /\ sent' = Sent("serverinfo", "0")
          /\ IF MaxClientsParses(info)
             THEN /\ server_info' = info
                  /\ pc' = "raw_clientlist"
                  /\ UNCHANGED <<sock, ret, clients, channels, channels2,
                                 excluded_cids, online_users, result>>
             ELSE /\ ret' = Failure("tcp")
                  /\ pc' = "done"
                  /\ UNCHANGED sock
                  /\ UNCHANGED data
     \/ RawRaise("serverinfo")
  /\ UNCHANGED <<config, backend, conn, connects, logins>>
  /\ UNCHANGED nested

\* line 195: parsed_clients, err = _send_and_recv(sock, "clientlist");
\* err is not read afterwards
RawClientlist ==
  /\ pc = "raw_clientlist"
  /\ \/ \E reply \in ListReplies(ClientLists) :
          /\ sent' = Sent("clientlist", reply.id)
          /\ clients' = reply.parsed
          /\ pc' = "raw_channellist"
          /\ UNCHANGED <<sock, ret, server_info, channels, channels2,
                         excluded_cids, online_users, result>>
     \/ RawRaise("clientlist")
  /\ UNCHANGED <<config, backend, conn, connects, logins>>
  /\ UNCHANGED nested

\* lines 196-214 and, for an online_count query, 226-230: the first
\* channellist (its err is dropped), excluded_cids, online_users, result and,
\* for a server_status query, the int() of the uptime, which may raise
RawChannellist ==
  /\ pc = "raw_channellist"
  /\ \/ \E reply \in ListReplies(ChannelLists) :
          /\ sent' = Sent("channellist", reply.id)
          /\ channels' = reply.parsed
          /\ excluded_cids' = ExcludedCids(exclude_channels, reply.parsed)
          /\ online_users' = OnlineUsers(clients, excluded_cids')
          /\ IF query_type = "server_status"
             THEN /\ result' = BaseResult(server_info, online_users')
                  /\ IF RawUptimeParses(server_info)
                     THEN /\ pc' = "raw_channellist2"
                          /\ UNCHANGED ret
                     ELSE /\ ret' = Failure("tcp")
                          /\ pc' = "done"
             ELSE /\ result' = WithUserList(BaseResult(server_info, online_users'),
                                            online_users')
                  /\ pc' = "raw_quit"
                  /\ UNCHANGED ret
          /\ UNCHANGED <<sock, server_info, clients, channels2>>
     \/ RawRaise("channellist")
  /\ UNCHANGED <<config, backend, conn, connects, logins>>
  /\ UNCHANGED nested

\* a status step that counts over the first listing and sends nothing
RawChannellist2Reuse ==
  /\ pc = "raw_channellist2"
  /\ channels2' = channels
  /\ result' = WithUserList(
                 result @@ StatusPart(server_info, RawUptime(server_info),
                              Len(FilterChannels(channels, excluded_cids))),
                 online_users)
  /\ pc' = "raw_quit"
  /\ UNCHANGED <<sock, ret, sent, server_info, clients, channels,
                 excluded_cids, online_users>>
  /\ UNCHANGED <<config, backend, conn, connects, logins>>
  /\ UNCHANGED nested

\* lines 215-230 of a server_status query: the second channellist, the
\* status fields and the user list
RawChannellist2 ==
  /\ pc = "raw_channellist2"
  /\ \/ \E reply \in ListReplies(ChannelLists) :
          /\ sent' = Sent("channellist", reply.id)
          /\ channels2' = reply.parsed
          /\ result' = WithUserList(
                         result @@ StatusPart(server_info, RawUptime(server_info),
                                      Len(FilterChannels(reply.parsed, excluded_cids))),
                         online_users)
          /\ pc' = "raw_quit"
          /\ UNCHANGED <<sock, ret, server_info, clients, channels,
                         excluded_cids, online_users>>
     \/ RawRaise("channellist")
  /\ UNCHANGED <<config, backend, conn, connects, logins>>
  /\ UNCHANGED nested

\* lines 232-238: quit (any failure of it is ignored), sock.close(),
\* return True, result
RawQuit ==
  /\ pc = "raw_quit"
  /\ \E id \in {"0", "raise"} : sent' = Sent("quit", id)
  /\ sock' = "closed"
  /\ ret' = Success(result)
  /\ pc' = "done"
  /\ UNCHANGED <<config, backend, conn, connects, logins>>
  /\ UNCHANGED data
  /\ UNCHANGED nested

Next ==
  \/ CheckCredentials
  \/ ImportTs3
  \/ LibConnect
  \/ LibLogin
  \/ LibUse
  \/ LibServerinfo
  \/ LibClientlist
  \/ LibChannellist
  \/ LibClose
  \/ RawConnect
  \/ RawLogin
  \/ RawUse
  \/ RawServerinfo
  \/ RawClientlist
  \/ RawChannellist
  \/ RawChannellist2
  \/ RawQuit

Spec == Init /\ [][Next]_vars

(***************************************************************************)
(* Lines 125-126: _unescape.  Text is a sequence of one-character strings, *)
(* and str.replace is computed as Python computes it: one scan from the    *)
(* left, the matches not overlapping.                                      *)
(***************************************************************************)
BS == "\\"

RECURSIVE Replace(_, _, _)
\* s.replace(old, new)
Replace(s, old, new) ==
  IF Len(s) < Len(old) THEN s
  ELSE IF SubSeq(s, 1, Len(old)) = old
       THEN new \o Replace(SubSeq(s, Len(old) + 1, Len(s)), old, new)
       ELSE <<Head(s)>> \o Replace(Tail(s), old, new)

\* the four replacements with the one of the backslash first
UnescapeBackslashFirst(v) ==
  Replace(Replace(Replace(Replace(v, <<BS, BS>>, <<BS>>),
                          <<BS, "s">>, <<" ">>),
                  <<BS, "/">>, <<"/">>),
          <<BS, "p">>, <<"|">>)

\* line 126: val.replace("\\s", " ").replace("\\/", "/").replace("\\p", "|")
\*              .replace("\\\\", "\\")
Unescape(v) ==
  Replace(Replace(Replace(Replace(v, <<BS, "s">>, <<" ">>),
                          <<BS, "/">>, <<"/">>),
                  <<BS, "p">>, <<"|">>),
          <<BS, BS>>, <<BS>>)

\* the characters a value is made of: the backslash, the characters the
\* escapes are written with or stand for, and a letter
Alphabet == {BS, "s", "p", "/", "|", " ", "a"}

\* a\sb\/c\pd\\e
EscapedExample ==
  <<"a", BS, "s", "b", BS, "/", "c", BS, "p", "d", BS, BS, "e">>

Values ==
  UNION { [1..n -> Alphabet] : n \in 0..MaxLen } \cup {EscapedExample}

\* the session a nested function is called in: connected over the raw
\* socket, nothing sent yet
RawSessionOpen ==
  /\ cfg = [password |-> "pw", api_key |-> "", exclude_channels |-> <<>>,
            show_details |-> FALSE]
  /\ query_type = "online_count"
  /\ show_user_list = FALSE
  /\ ts3_installed = FALSE
  /\ pc = "raw_login"
  /\ backend = "raw"
  /\ conn = "none"
  /\ sock = "open"
  /\ connects = 1
  /\ logins = 0
  /\ sent = <<>>
  /\ exclude_channels = <<>>
  /\ server_info = EmptyDict
  /\ clients = <<>>
  /\ channels = <<>>
  /\ channels2 = <<>>
  /\ excluded_cids = {}
  /\ online_users = <<>>
  /\ result = EmptyDict
  /\ ret = <<>>

InitUnescape ==
  /\ RawSessionOpen
  /\ CodecAtRest
  /\ val \in Values
  /\ out = <<"none">>

\* a call _unescape(val)
CallUnescape ==
  /\ out = <<"none">>
  /\ out' = Unescape(val)
  /\ UNCHANGED <<val, rpc, stream, peer, buf, chunk, entries, err>>
  /\ UNCHANGED session

NextUnescape == CallUnescape

SpecUnescape == InitUnescape /\ [][NextUnescape]_vars

(***************************************************************************)
(* Lines 137-166: _send_and_recv.  A response is a sequence of tokens: a   *)
(* status word ("error id=..." with what follows it on the line), a data   *)
(* word, and the two line terminators.  recv hands over any non-empty      *)
(* prefix of what the server still has to deliver; a chunk never ends      *)
(* inside a word.                                                          *)
(***************************************************************************)
OkWord == "error id=0 msg=ok"
FailWord == "error id=1024 msg=invalid\\sserverID"
DataWord == "clid=1"
NL == "LF"
CR == "CR"

StatusWords == {OkWord, FailWord}

\* err.get("id") of a status word
StatusId(w) == IF w = OkWord THEN "0" ELSE "1024"

LineContents == { <<DataWord>>, <<OkWord>>, <<FailWord>>, <<DataWord, OkWord>> }

\* the server ends a line with "\n\r"; "\n" alone and a missing
\* terminator are what a cut or non-conforming response has
LineEnds == { <<NL, CR>>, <<NL>>, <<>> }

RECURSIVE ResponsesOf(_)
ResponsesOf(n) ==
  IF n = 0 THEN { <<>> }
  ELSE LET shorter == ResponsesOf(n - 1)
       IN shorter \cup { r \o c \o e :
                           r \in shorter, c \in LineContents, e \in LineEnds }

Responses == ResponsesOf(MaxLines)

Peers == {"silent", "closes", "drips"}

\* b"\nerror id=" in d
ContainsStatus(d) ==
  \E i \in 1..(Len(d) - 1) : d[i] = NL /\ d[i + 1] \in StatusWords

\* d.replace(b"\r", b"")
WithoutCR(d) == SelectSeq(d, LAMBDA t : t # CR)

\* line 147: b"\nerror id=" in data or
\*           b"\nerror id=" in data.replace(b"\r", b"")
SeesStatus(d) == ContainsStatus(d) \/ ContainsStatus(WithoutCR(d))

RECURSIVE SplitLines(_)
\* text.splitlines(): a line ends at "\n", "\r" or "\r\n", and no empty
\* line follows the last terminator
SplitLines(d) ==
  IF d = <<>> THEN <<>>
  ELSE LET ends == { i \in 1..Len(d) : d[i] \in {NL, CR} }
       IN IF ends = {} THEN <<d>>
          ELSE LET end == CHOOSE i \in ends : \A j \in ends : i <= j
                   next == IF d[end] = CR /\ end < Len(d) /\ d[end + 1] = NL
                           THEN end + 2 ELSE end + 1
               IN <<SubSeq(d, 1, end - 1)>>
                    \o SplitLines(SubSeq(d, next, Len(d)))

\* line 152: [l for l in text.splitlines() if l.strip()]
NonBlankLines(d) == SelectSeq(SplitLines(d), LAMBDA l : l # <<>>)

\* _parse_entry(line).get("id"): of several id= on a line the last is kept
ErrId(line) ==
  LET at == { i \in 1..Len(line) : line[i] \in StatusWords }
      last == CHOOSE i \in at : \A j \in at : j <= i
  IN StatusId(line[last])

\* every line that starts with a status word is taken for the status and
\* left out of the data
ParseResponseAnyLine(d) ==
  LET lines == NonBlankLines(d)
      status == SelectSeq(lines, LAMBDA l : Head(l) \in StatusWords)
  IN IF status = <<>>
     THEN [entries |-> lines, id |-> "-1"]
     ELSE [entries |-> SelectSeq(lines, LAMBDA l : Head(l) \notin StatusWords),
           id |-> ErrId(status[Len(status)])]

\* lines 151-166: the data lines and the status id that are returned
ParseResponse(d) ==
  LET lines == NonBlankLines(d)
  IN IF lines = <<>>
     THEN [entries |-> <<>>, id |-> "-1"]
     ELSE IF Head(lines[Len(lines)]) \in StatusWords
          THEN [entries |-> SubSeq(lines, 1, Len(lines) - 1),
                id |-> ErrId(lines[Len(lines)])]
          ELSE [entries |-> lines, id |-> "-1"]

InitCodec ==
  /\ RawSessionOpen
  /\ EscapeAtRest
  /\ rpc = "send"
  /\ stream \in Responses
  /\ peer \in Peers
  /\ buf = <<>>
  /\ chunk = <<>>
  /\ entries = <<>>
  /\ err = "none"

\* break, then lines 151-166
Return(d) ==
  /\ rpc' = "returned"
  /\ entries' = ParseResponse(d).entries
  /\ err' = ParseResponse(d).id

\* lines 138-140: sock.sendall((cmd + "\n").encode()); data = b""
SendCommand ==
  /\ rpc = "send"
  /\ rpc' \in {"recv", "raised"}
  /\ buf' = <<>>
  /\ UNCHANGED <<stream, peer, chunk, entries, err, val, out>>
  /\ UNCHANGED session

\* lines 143-149: recv hands over a chunk, which is appended; the loop
\* ends when line 147 sees the status
RecvChunk ==
  /\ rpc = "recv"
  /\ stream # <<>>
  /\ \E n \in 1..Len(stream) :
       /\ chunk' = SubSeq(stream, 1, n)
       /\ stream' = SubSeq(stream, n + 1, Len(stream))
       /\ buf' = buf \o chunk'
       /\ IF SeesStatus(buf')
          THEN Return(buf')
          ELSE UNCHANGED <<rpc, entries, err>>
  /\ UNCHANGED <<peer, val, out>>
  /\ UNCHANGED session

\* lines 143-145: the peer has closed the connection, recv returns b""
RecvClosed ==
  /\ rpc = "recv"
  /\ stream = <<>>
  /\ peer = "closes"
  /\ chunk' = <<>>
  /\ Return(buf)
  /\ UNCHANGED <<stream, peer, buf, val, out>>
  /\ UNCHANGED session

\* lines 149-150: nothing arrived for the length of the timeout
RecvTimeout ==
  /\ rpc = "recv"
  /\ peer = "silent"
  /\ Return(buf)
  /\ UNCHANGED <<stream, peer, buf, chunk, val, out>>
  /\ UNCHANGED session

\* lines 143-148 with a peer that, its response delivered, goes on sending
\* data words, each before the timeout runs out.  Of data the first
\* MaxBuf tokens are kept: what line 147 looks for cannot come about in
\* what is left out, which holds data words only.
RecvDrip ==
  /\ rpc = "recv"
  /\ stream = <<>>
  /\ peer = "drips"
  /\ \E c \in { <<DataWord>>, <<DataWord, DataWord>> } :
       /\ chunk' = c
       /\ buf' = IF Len(buf \o c) <= MaxBuf THEN buf \o c ELSE buf
       /\ IF SeesStatus(buf \o c)
          THEN Return(buf \o c)
          ELSE UNCHANGED <<rpc, entries, err>>
  /\ UNCHANGED <<stream, peer, val, out>>
  /\ UNCHANGED session

\* line 143: recv raises something other than socket.timeout
RecvRaise ==
  /\ rpc = "recv"
  /\ rpc' = "raised"
  /\ UNCHANGED <<stream, peer, buf, chunk, entries, err, val, out>>
  /\ UNCHANGED session

NextCodec ==
  \/ SendCommand
  \/ RecvChunk
  \/ RecvClosed
  \/ RecvTimeout
  \/ RecvDrip
  \/ RecvRaise

SpecCodec == InitCodec /\ [][NextCodec]_vars

\* a call whose response has one line at most
InitLive ==
  /\ InitCodec
  /\ stream \in ResponsesOf(1)

\* the call goes on as long as it can take a step: the interpreter runs
\* it, and a blocked recv ends by data, by the close or by the timeout
SpecLive == InitLive /\ [][NextCodec]_vars /\ WF_vars(NextCodec)

(***************************************************************************)
(* Properties.                                                             *)
(***************************************************************************)
Returned == pc = "done"

Succeeded == pc = "done" /\ ret[1] = TRUE

NoCredentials == cfg.password = "" /\ cfg.api_key = ""

\* C1: with an empty password and an empty api key the invocation returns
\* the credentials failure and never touches the network: no connection
\* attempt by either backend, no socket, no login, no command sent.
C1_NoCredentialsNoNetwork ==
  NoCredentials =>
    /\ pc \in {"start", "done"}
    /\ connects = 0
    /\ conn = "none"
    /\ sock = "none"
    /\ logins = 0
    /\ sent = <<>>
    /\ Returned => ret = Failure("credentials")

C1_Witness ==
  /\ NoCredentials
  /\ Returned
  /\ ret = Failure("credentials")
  /\ connects = 0

\* C2: when the invocation has returned, neither the ts3 connection nor the
\* raw socket is still open.
C2_NoOpenConnectionAtReturn ==
  Returned => conn # "open" /\ sock # "open"

\* C3: nothing is retried inside one invocation: a session that failed is
\* not followed by a session of the other backend, so at most one login
\* command is issued per invocation.
C3_SingleLogin ==
  logins <= 1

\* the ts3 path raised after the library was imported
LibraryFailed == ts3_installed /\ backend = "raw"

\* C4: an invocation in which a step of the library backend failed returns
\* (False, {error}); only a run without a failure returns (True, result).
C4_LibraryFailureIsReturned ==
  (Returned /\ LibraryFailed) => ret[1] = FALSE

DataCommands == {"login", "use", "serverinfo", "clientlist", "channellist"}

\* C5: on the raw socket, a data command answered with a status id other
\* than "0" is the last command of the session: the socket is closed, the
\* invocation has returned, and it has returned a failure.
C5_NonZeroStatusEndsSession ==
  \A i \in 1..Len(sent) :
    (sent[i].cmd \in DataCommands /\ sent[i].id \in StatusIds \ {"0"}) =>
      /\ i = Len(sent)
      /\ sock = "closed"
      /\ Returned
      /\ ret[1] = FALSE

\* excluded_cids has been built from channels, and the invocation has not
\* failed since
ExclusionBuilt ==
  \/ pc \in {"lib_close", "raw_channellist2", "raw_quit"}
  \/ Succeeded

\* the ids of the channels of the listing that are named t
IdsNamed(t) ==
  {CidOf(channels[i]) : i \in {j \in 1..Len(channels) : ChannelName(channels[j]) = t}}

\* C6: the exclusion set is the union, over the configured tokens, of the
\* ids of the channels named like the token when there is such a channel,
\* and of the token itself as a literal id only when there is none.
C6_NameMatchFirst ==
  ExclusionBuilt =>
    excluded_cids =
      UNION { IF IdsNamed(exclude_channels[i]) # {}
              THEN IdsNamed(exclude_channels[i])
              ELSE {exclude_channels[i]} : i \in 1..Len(exclude_channels) }

\* channel 5 is named Lobby and no channel is named 7: Lobby gives 5, 7 gives 7
C6_Witness ==
  /\ Succeeded
  /\ exclude_channels = <<"Lobby", "7">>
  /\ \E i \in 1..Len(channels) :
       CidOf(channels[i]) = "5" /\ ChannelName(channels[i]) = "Lobby"
  /\ \A i \in 1..Len(channels) : ChannelName(channels[i]) # "7"
  /\ excluded_cids = {"5", "7"}

\* positions, in the client list, of the regular clients outside the
\* excluded channels
CountedClients ==
  {i \in 1..Len(clients) :
     /\ "client_type" \in DOMAIN clients[i]
     /\ clients[i].client_type = "0"
     /\ CidOf(clients[i]) \notin excluded_cids}

\* C7: a successful result counts exactly the clients of type "0" whose
\* channel is not excluded, and online_users holds no other client.
C7_OnlineCount ==
  Succeeded =>
    /\ result.online_count = Cardinality(CountedClients)
    /\ Len(online_users) = result.online_count
    /\ \A k \in 1..Len(online_users) :
         /\ Get(online_users[k], "client_type", "None") = "0"
         /\ CidOf(online_users[k]) \notin excluded_cids

C7_Witness ==
  /\ Succeeded
  /\ \E i \in 1..Len(clients) : clients[i].client_type # "0"
  /\ \E i \in 1..Len(clients) :
       clients[i].client_type = "0" /\ CidOf(clients[i]) \in excluded_cids
  /\ result.online_count > 0
  /\ result.online_count < Len(clients)

\* the k-th position of a set of positions, in increasing order
Kth(positions, k) ==
  CHOOSE i \in positions : Cardinality({j \in positions : j < i}) = k - 1

\* C8: when the user list is produced, online_users holds the nicknames of
\* the first min(10, n) counted clients in listing order, n = online_count;
\* more_users is present exactly when n > 10 and is then n - 10.
C8_UserListCap ==
  (Succeeded /\ ShowList) =>
    LET counted == CountedClients
        n == result.online_count
        m == IF n < UserListCap THEN n ELSE UserListCap
    IN /\ n = Cardinality(counted)
       /\ "online_users" \in DOMAIN result
       /\ Len(result.online_users) = m
       /\ \A k \in 1..m :
            result.online_users[k] =
              Get(clients[Kth(counted, k)], "client_nickname", "unknown")
       /\ ("more_users" \in DOMAIN result) <=> (n > UserListCap)
       /\ (n > UserListCap) => result.more_users = n - UserListCap

\* exactly ten users online: the list is full and more_users is absent
C8_Witness ==
  /\ Succeeded
  /\ ShowList
  /\ result.online_count = UserListCap
  /\ Len(result.online_users) = UserListCap
  /\ "more_users" \notin DOMAIN result

\* more than ten users online: the overflow is reported
C8_WitnessOverflow ==
  /\ Succeeded
  /\ ShowList
  /\ result.online_count > UserListCap
  /\ Len(result.online_users) = UserListCap
  /\ result.more_users = result.online_count - UserListCap

\* C9: max_clients of a successful result is never negative, and an answer
\* to serverinfo with status id "0" never makes the invocation fail.
C9_MaxClientsNonNegative ==
  /\ Succeeded => result.max_clients >= 0
  /\ (Returned /\ backend = "raw" /\ Len(sent) = 3 /\ sent[3].id = "0") => ret[1] = TRUE

\* C10: a server_status result has uptime_days = u div 86400 and
\* uptime_hours = (u mod 86400) div 3600, hours between 0 and 23, where u is
\* the uptime the server reported; both are 0 when the field is missing or
\* empty.
C10_Uptime ==
  (Succeeded /\ query_type = "server_status") =>
    IF "virtualserver_uptime" \in DOMAIN server_info /\ server_info.virtualserver_uptime # <<>>
    THEN LET u == IntOf(server_info.virtualserver_uptime)
         IN /\ u >= 0
            /\ result.uptime_days = u \div 86400
            /\ result.uptime_hours = (u % 86400) \div 3600
            /\ result.uptime_hours \in 0..23
            /\ result.uptime_days * 86400 + result.uptime_hours * 3600 <= u
            /\ u < result.uptime_days * 86400 + (result.uptime_hours + 1) * 3600
    ELSE result.uptime_days = 0 /\ result.uptime_hours = 0

\* 90000 seconds are 1 day and 1 hour
C10_Witness ==
  /\ Succeeded
  /\ query_type = "server_status"
  /\ server_info.virtualserver_uptime = <<"9", "0", "0", "0", "0">>
  /\ result.uptime_days = 1
  /\ result.uptime_hours = 1

\* a missing or empty uptime gives 0 days 0 hours
C10_WitnessFalsy ==
  /\ Succeeded
  /\ query_type = "server_status"
  /\ backend = "raw"
  /\ Get(server_info, "virtualserver_uptime", <<>>) = <<>>
  /\ result.uptime_days = 0
  /\ result.uptime_hours = 0

\* the command names of the raw session, in the order they were issued
Commands == [i \in 1..Len(sent) |-> sent[i].cmd]

\* the commands of a raw session that runs to its end
SessionCommands ==
  IF query_type = "server_status"
  THEN <<"login", "use", "serverinfo", "clientlist", "channellist", "channellist", "quit">>
  ELSE <<"login", "use", "serverinfo", "clientlist", "channellist", "quit">>

\* C13: the raw session issues login, use, serverinfo, clientlist,
\* channellist, a second channellist for a server_status query only, then
\* quit, in this order: at every moment the commands issued are a prefix of
\* that sequence, and a raw session that returns a result has issued all of
\* it (one channellist for online_count, two for server_status).
C13_CommandSequence ==
  /\ Len(sent) <= Len(SessionCommands)
  /\ Commands = SubSeq(SessionCommands, 1, Len(sent))
  /\ (Succeeded /\ backend = "raw") => Commands = SessionCommands
  /\ pc \in {"raw_connect", "raw_login"} \/ backend # "raw" => sent = <<>>

C13_Witness ==
  /\ Succeeded
  /\ backend = "raw"
  /\ query_type = "server_status"
  /\ \A i \in 1..Len(sent) : sent[i].id = "0"
  /\ Cardinality({i \in 1..Len(sent) : sent[i].cmd = "channellist"}) = 2
  /\ sent[Len(sent)].cmd = "quit"

\* C14: a raw socket is closed only after a quit command was sent on it.
C14_QuitBeforeClose ==
  sock = "closed" => \E i \in 1..Len(sent) : sent[i].cmd = "quit"

\* every data command of the raw session was answered with status id "0"
AllAnswered ==
  \A i \in 1..Len(sent) : sent[i].cmd \in DataCommands => sent[i].id = "0"

\* the ts3 path shapes a result from info without raising
LibShapes(info) ==
  query_type = "server_status" => LibUptimeParses(info)

\* C15: a raw session whose commands were all answered, and answered the
\* second channellist like the first, returns the result the ts3 path
\* returns for the same configuration and the same records.
C15_BackendIndependent ==
  (/\ Succeeded
   /\ backend = "raw"
   /\ AllAnswered
   /\ query_type = "server_status" => channels2 = channels) =>
    /\ LibShapes(server_info)
    /\ result = LibResult(server_info, online_users, channels, excluded_cids)

\* C16: channel_count of a server_status result is the number of channels,
\* of the listing the exclusion set was built from, that are not excluded.
C16_ChannelCount ==
  (Succeeded /\ query_type = "server_status") =>
    result.channel_count =
      Cardinality({i \in 1..Len(channels) : CidOf(channels[i]) \notin excluded_cids})

\* C19: the raw socket exists only while no ts3 connection is open: at most
\* one connection to the server is open at any moment.
C19_OneConnection ==
  sock # "none" => conn # "open"

\* the ts3 session failed after it had connected, and the raw socket is open
C19_Witness ==
  /\ conn = "closed"
  /\ sock = "open"
  /\ logins = 2

\* the positions of s where a replacement of the two-character text old
\* takes place: s reads old there, and within a run of equal characters
\* the occurrences are taken pairwise from the start of the run
C18_Matches(s, old) ==
  { i \in 1..(Len(s) - 1) :
      /\ s[i] = old[1]
      /\ s[i + 1] = old[2]
      /\ old[1] = old[2] =>
           LET start == CHOOSE j \in 1..i :
                          /\ \A k \in j..i : s[k] = old[1]
                          /\ j = 1 \/ s[j - 1] # old[1]
           IN (i - start) % 2 = 0 }

RECURSIVE C18_Join(_, _)
\* the concatenation of the first n pieces
C18_Join(pieces, n) ==
  IF n = 0 THEN <<>> ELSE C18_Join(pieces, n - 1) \o pieces[n]

\* one substitution over the whole of s, position by position
C18_Substitute(s, old, new) ==
  LET at == C18_Matches(s, old)
      pieces == [i \in 1..Len(s) |->
                   IF i \in at THEN new
                   ELSE IF (i - 1) \in at THEN <<>>
                   ELSE <<s[i]>>]
  IN C18_Join(pieces, Len(s))

\* the reference: \s -> space, then \/ -> /, then \p -> |, then \\ -> \
C18_Reference(v) ==
  C18_Substitute(
    C18_Substitute(
      C18_Substitute(
        C18_Substitute(v, <<BS, "s">>, <<" ">>),
        <<BS, "/">>, <<"/">>),
      <<BS, "p">>, <<"|">>),
    <<BS, BS>>, <<BS>>)

\* a b/c|d\e
C18_ExampleResult == <<"a", " ", "b", "/", "c", "|", "d", BS, "e">>

\* C18: what _unescape returns is the four substitutions applied one after
\* the other over the whole value, in the order \s, \/, \p, \\, for every
\* value over the alphabet; a\sb\/c\pd\\e gives a b/c|d\e.
C18_UnescapeIsReference ==
  out # <<"none">> =>
    /\ out = C18_Reference(val)
    /\ val = EscapedExample => out = C18_ExampleResult

\* the example of the specification has been unescaped
C18_Witness ==
  /\ val = EscapedExample
  /\ out = C18_ExampleResult

\* a value on which the order of the rules shows: \\s gives "\ " (the \s
\* rule consumes the second backslash), not a space
C18_WitnessOrder ==
  /\ val = <<BS, BS, "s">>
  /\ out = <<BS, " ">>

\* r is zero or more data lines followed by the status line, each line
\* ended by "\n\r"
C11_WellFormed(r) ==
  /\ Len(r) >= 3
  /\ Len(r) % 3 = 0
  /\ \A i \in 1..Len(r) :
       CASE i % 3 = 2 -> r[i] = NL
         [] i % 3 = 0 -> r[i] = CR
         [] OTHER -> IF i = Len(r) - 2 THEN r[i] \in StatusWords
                                       ELSE r[i] = DataWord

\* d holds a line that begins with a status word and has been ended
C11_HasStatusLine(d) ==
  \E i \in 1..(Len(d) - 1) :
    /\ d[i] \in StatusWords
    /\ i = 1 \/ d[i - 1] \in {NL, CR}
    /\ d[i + 1] = NL

\* C11: for a response of zero or more data lines followed by the status
\* line, the status line alone included, no recv is issued once the buffer
\* holds a line beginning with "error id=".
C11_StopsAtStatusLine ==
  (rpc = "recv" /\ C11_WellFormed(buf \o stream)) => ~C11_HasStatusLine(buf)

\* the positions of d where a non-empty line starts
C12_LineStarts(d) ==
  { i \in 1..Len(d) :
      /\ d[i] \notin {NL, CR}
      /\ i = 1 \/ d[i - 1] \in {NL, CR} }

\* d without its line terminators
C12_Words(d) == SelectSeq(d, LAMBDA t : t \notin {NL, CR})

\* C12: the response is classified by its last non-empty line only.  If
\* that line starts with "error id=" it is the status and is not among the
\* data lines, which are all the lines before it; otherwise, and when
\* there is no line at all, the status id is "-1" and every line is data.
C12_LastLineOnly ==
  rpc = "returned" =>
    LET starts == C12_LineStarts(buf)
    IN IF starts = {}
       THEN err = "-1" /\ entries = <<>>
       ELSE LET last == CHOOSE i \in starts : \A j \in starts : j <= i
                words == { i \in 1..Len(buf) : buf[i] \in StatusWords }
            IN IF buf[last] \in StatusWords
               THEN /\ err = StatusId(buf[CHOOSE i \in words :
                                            \A j \in words : j <= i])
                    /\ Len(entries) = Cardinality(starts) - 1
                    /\ C18_Join(entries, Len(entries))
                         = C12_Words(SubSeq(buf, 1, last - 1))
               ELSE /\ err = "-1"
                    /\ Len(entries) = Cardinality(starts)
                    /\ C18_Join(entries, Len(entries)) = C12_Words(buf)

\* the status line alone, as login and use are answered: success without
\* data
C12_Witness ==
  /\ rpc = "returned"
  /\ buf = <<OkWord, NL, CR>>
  /\ err = "0"
  /\ entries = <<>>

\* a data line, then the status line
C12_WitnessData ==
  /\ rpc = "returned"
  /\ buf = <<DataWord, NL, CR, OkWord, NL, CR>>
  /\ err = "0"
  /\ entries = << <<DataWord>> >>

\* a response cut by the timeout after its data line
C12_WitnessPartial ==
  /\ rpc = "returned"
  /\ buf = <<DataWord, NL, CR>>
  /\ stream # <<>>
  /\ err = "-1"
  /\ entries = << <<DataWord>> >>

\* a status line that is not the last line does not count
C12_WitnessNotLast ==
  /\ rpc = "returned"
  /\ buf = <<OkWord, NL, CR, DataWord>>
  /\ err = "-1"
  /\ Len(entries) = 2

\* C17: every call of _send_and_recv ends, whatever the server does.
C17_ReadLoopEnds == <>(rpc \in {"returned", "raised"})

====
